---------------------------- MODULE Spec2Model ----------------------------
(***************************************************************************)
(* Model of the rules search engine (src/search_rules.py): the class       *)
(* RulesSearcher with fuzzy_search, search_by_keywords,                     *)
(* search_by_rule_number and the scorer _calculate_similarity /            *)
(* _calculate_sequence_similarity.                                         *)
(*                                                                         *)
(* Strings are sequences of one-character strings.  Scores (Python floats) *)
(* are exact rationals <<numerator, denominator>> in lowest terms with a   *)
(* positive denominator; the comparisons the code makes on them            *)
(* (> 0.8, >= threshold, max, sort) agree with the float comparisons on    *)
(* every value the model produces.                                         *)
(***************************************************************************)
EXTENDS Integers, Sequences, FiniteSets

VARIABLES
    rules,   \* self.rules: the corpus loaded by __init__, in file order
    call,    \* the operation that ran last, with its arguments
    ret,     \* what that operation returned (or the exception it raised)
    sched,   \* the SimpleScheduler task, the clock and the rounds so far
    daily    \* SimpleDailyRules: self.groups, and whether the file holds it

vars == <<rules, call, ret, sched, daily>>

(***************************************************************************)
(* Bounds of the model.                                                    *)
(***************************************************************************)
MaxRules == 2            \* rules in the corpus
MaxRuleNumber == 2       \* rule numbers are drawn from 1..MaxRuleNumber
MaxQueryLen == 3         \* characters in a fuzzy_search query
MaxResults == 2          \* max_results is drawn from -1..MaxResults
MaxKeywords == 2         \* keywords in a search_by_keywords call
MaxTextWords == 5        \* words in a text handed to the scorer directly
MaxQueryWords == 2       \* words in a query handed to the scorer directly
LongQueryWords == 4      \* words in the long queries handed to the scorer
MaxRawLen == 3           \* characters in a string handed to the scorer as is
MaxDays == 3             \* calendar days the clock runs through
MaxLate == 1             \* ticks a sleep may overrun its duration
MaxRound == 2            \* ticks one round of sending may take
LastDailyRule == 3       \* the daily rules are 1..LastDailyRule (for 1..95)
MaxGroupId == 2          \* group ids are drawn from 1..MaxGroupId

(***************************************************************************)
(* Characters.  "²" stands for the characters str.isdigit() accepts but    *)
(* int() rejects (superscript digits and the like).                        *)
(***************************************************************************)
Whitespace == {" "}
DecimalChars == {"0", "1", "2", "3", "4", "5", "6", "7", "8", "9"}
DigitChars == DecimalChars \cup {"²"}

Max(a, b) == IF a >= b THEN a ELSE b
Min(a, b) == IF a <= b THEN a ELSE b

(***************************************************************************)
(* Rational arithmetic for the float scores.                               *)
(***************************************************************************)
RECURSIVE Gcd(_, _)
Gcd(a, b) == IF b = 0 THEN a ELSE Gcd(b, a % b)

Abs(n) == IF n < 0 THEN -n ELSE n

Rat(n, d) ==
    LET g == Gcd(Abs(n), d)
    IN  <<n \div g, d \div g>>

RAdd(x, y) == Rat(x[1] * y[2] + y[1] * x[2], x[2] * y[2])
RSub(x, y) == Rat(x[1] * y[2] - y[1] * x[2], x[2] * y[2])
RMul(x, y) == Rat(x[1] * y[1], x[2] * y[2])
RDivInt(x, n) == Rat(x[1], x[2] * n)
RLeq(x, y) == x[1] * y[2] <= y[1] * x[2]
RLess(x, y) == x[1] * y[2] < y[1] * x[2]
RMax(x, y) == IF RLeq(y, x) THEN x ELSE y
RMin(x, y) == IF RLeq(x, y) THEN x ELSE y
Zero == <<0, 1>>
One == <<1, 1>>

(***************************************************************************)
(* Python string operations used by the searcher.                          *)
(***************************************************************************)
\* str.lower() on one character
LowerChar(c) ==
    CASE c = "A" -> "a"
      [] c = "B" -> "b"
      [] OTHER -> c

\* str.lower()
Lower(s) == [i \in 1..Len(s) |-> LowerChar(s[i])]

RECURSIVE LStrip(_)
LStrip(s) ==
    IF s # <<>> /\ Head(s) \in Whitespace THEN LStrip(Tail(s)) ELSE s

RECURSIVE RStrip(_)
RStrip(s) ==
    IF s # <<>> /\ s[Len(s)] \in Whitespace
    THEN RStrip(SubSeq(s, 1, Len(s) - 1))
    ELSE s

\* str.strip()
Strip(s) == RStrip(LStrip(s))

\* str.isdigit(): non-empty and every character is a digit character
IsDigit(s) == s # <<>> /\ \A i \in 1..Len(s) : s[i] \in DigitChars

DigitValue(c) ==
    CASE c = "0" -> 0 [] c = "1" -> 1 [] c = "2" -> 2 [] c = "3" -> 3
      [] c = "4" -> 4 [] c = "5" -> 5 [] c = "6" -> 6 [] c = "7" -> 7
      [] c = "8" -> 8 [] c = "9" -> 9

RECURSIVE DecimalValue(_)
DecimalValue(s) ==
    IF s = <<>> THEN 0
    ELSE 10 * DecimalValue(SubSeq(s, 1, Len(s) - 1)) + DigitValue(s[Len(s)])

\* int(s) for a string that passed isdigit(): the number, or ValueError
\* when some character is no decimal digit
IntOf(s) ==
    IF \A i \in 1..Len(s) : s[i] \in DecimalChars
    THEN [ok |-> TRUE, value |-> DecimalValue(s)]
    ELSE [ok |-> FALSE, value |-> 0]

\* sub in s
Contains(sub, s) ==
    \E i \in 0..(Len(s) - Len(sub)) : SubSeq(s, i + 1, i + Len(sub)) = sub

\* str.split(): the maximal runs of non-whitespace characters
RECURSIVE SplitFrom(_, _, _)
SplitFrom(s, i, word) ==
    IF i > Len(s)
    THEN IF word = <<>> THEN <<>> ELSE <<word>>
    ELSE IF s[i] \in Whitespace
         THEN IF word = <<>>
              THEN SplitFrom(s, i + 1, <<>>)
              ELSE <<word>> \o SplitFrom(s, i + 1, <<>>)
         ELSE SplitFrom(s, i + 1, Append(word, s[i]))

Split(s) == SplitFrom(s, 1, <<>>)

Range(s) == {s[i] : i \in 1..Len(s)}

(***************************************************************************)
(* difflib.SequenceMatcher(None, a, b).ratio(): twice the total size of    *)
(* the matching blocks over the total length.  Positions are 0-based and   *)
(* ranges half-open, as in difflib.                                        *)
(***************************************************************************)
RECURSIVE CommonLen(_, _, _, _, _, _)
CommonLen(a, b, i, j, ahi, bhi) ==
    IF i < ahi /\ j < bhi /\ a[i + 1] = b[j + 1]
    THEN 1 + CommonLen(a, b, i + 1, j + 1, ahi, bhi)
    ELSE 0

\* find_longest_match: the longest block, the earliest in a among the
\* longest, the earliest in b among those
FindLongestMatch(a, b, alo, ahi, blo, bhi) ==
    LET cands == {<<i, j>> : i \in alo..(ahi - 1), j \in blo..(bhi - 1)}
        size(c) == CommonLen(a, b, c[1], c[2], ahi, bhi)
        best == IF cands = {} THEN 0
                ELSE CHOOSE k \in {size(c) : c \in cands} :
                         \A c \in cands : size(c) <= k
    IN  IF best = 0 THEN <<alo, blo, 0>>
        ELSE LET top == {c \in cands : size(c) = best}
                 i0 == CHOOSE i \in {c[1] : c \in top} :
                           \A c \in top : i <= c[1]
                 j0 == CHOOSE j \in {c[2] : c \in {d \in top : d[1] = i0}} :
                           \A c \in {d \in top : d[1] = i0} : j <= c[2]
             IN  <<i0, j0, best>>

\* get_matching_blocks: the sum of the block sizes
RECURSIVE MatchTotal(_, _, _, _, _, _)
MatchTotal(a, b, alo, ahi, blo, bhi) ==
    LET m == FindLongestMatch(a, b, alo, ahi, blo, bhi)
        i == m[1]
        j == m[2]
        k == m[3]
    IN  IF k = 0 THEN 0
        ELSE k
             + (IF alo < i /\ blo < j
                THEN MatchTotal(a, b, alo, i, blo, j) ELSE 0)
             + (IF i + k < ahi /\ j + k < bhi
                THEN MatchTotal(a, b, i + k, ahi, j + k, bhi) ELSE 0)

SequenceMatcherRatio(a, b) ==
    IF Len(a) + Len(b) = 0 THEN One
    ELSE Rat(2 * MatchTotal(a, b, 0, Len(a), 0, Len(b)), Len(a) + Len(b))

(***************************************************************************)
(* RulesSearcher._calculate_sequence_similarity.  Positions are 0-based.   *)
(***************************************************************************)
\* the inner "for k in range(window_start, window_end)": the first k of the
\* window whose word is query_word, or -1 when the loop ends without a hit
FirstInWindow(text_words, query_word, window_start, window_end) ==
    LET hits == {k \in window_start..(window_end - 1) :
                     text_words[k + 1] = query_word}
    IN  IF hits = {} THEN -1
        ELSE CHOOSE k \in hits : \A h \in hits : k <= h

\* the "for j, query_word in enumerate(query_words)" loop from word j on,
\* with the loop's last_pos and gaps: the final gaps when every word is
\* found (matches == len(query_words)), -1 when a word is not found
RECURSIVE MatchWords(_, _, _, _, _)
MatchWords(query_words, text_words, j, last_pos, gaps) ==
    IF j > Len(query_words) THEN gaps
    ELSE LET window_start == Max(0, last_pos - 2)
             window_end == Min(Len(text_words), last_pos + 3)
             k == FirstInWindow(text_words, query_words[j],
                                window_start, window_end)
         IN  IF k = -1 THEN -1
             ELSE MatchWords(query_words, text_words, j + 1, k + 1,
                             gaps + Max(0, k - last_pos - 1))

\* score = 0.9 - min(0.3, gaps * 0.1)
SequenceScore(gaps) == RSub(<<9, 10>>, RMin(<<3, 10>>, Rat(gaps, 10)))

\* the start positions the outer loop tries
StartPositions(query_words, text_words) ==
    0..(Len(text_words) - Len(query_words))

RECURSIVE BestOver(_)
BestOver(scores) ==
    IF scores = {} THEN Zero
    ELSE LET s == CHOOSE x \in scores : TRUE
         IN  RMax(s, BestOver(scores \ {s}))

CalculateSequenceSimilarity(query_words, text_words) ==
    IF Len(query_words) < 2 THEN Zero
    ELSE LET full == {i \in StartPositions(query_words, text_words) :
                         MatchWords(query_words, text_words, 1, i, 0) # -1}
         IN  BestOver({SequenceScore(
                           MatchWords(query_words, text_words, 1, i, 0)) :
                       i \in full})

(***************************************************************************)
(* RulesSearcher._calculate_similarity (query and text already lower-cased *)
(* by the callers).                                                        *)
(***************************************************************************)
\* word_matches = sum(1 for word in query_words if word in text)
WordMatches(query_words, text) ==
    Cardinality({j \in 1..Len(query_words) : Contains(query_words[j], text)})

\* Method 6: |intersection| / |union| of the two word sets
WordScore(query_words, text_words) ==
    LET q == Range(query_words)
        t == Range(text_words)
    IN  IF q \cup t # {}
        THEN Rat(Cardinality(q \cap t), Cardinality(q \cup t))
        ELSE Zero

\* Method 7: 0.3 when some query word is inside some text word or the
\* other way round
PartialScore(query_words, text_words) ==
    IF \E j \in 1..Len(query_words) : \E t \in Range(text_words) :
           Contains(query_words[j], t) \/ Contains(t, query_words[j])
    THEN <<3, 10>>
    ELSE Zero

\* Methods 5-7, reached when no earlier method returned
FallbackScore(query, text, query_words) ==
    LET seq_score == SequenceMatcherRatio(query, text)
        text_words == Split(text)
    IN  IF query_words = <<>> THEN seq_score
        ELSE RAdd(RAdd(RMul(seq_score, <<15, 100>>),
                       RMul(WordScore(query_words, text_words), <<25, 100>>)),
                  RMul(PartialScore(query_words, text_words), <<25, 100>>))

\* mutant: a sequence score of 0.8 is returned too (>= for >)
CalculateSimilaritySeqGeq(query, text) ==
    LET query_words == Split(query)
        n == Len(query_words)
        sequence_score ==
            CalculateSequenceSimilarity(query_words, Split(text))
        word_matches == WordMatches(query_words, text)
    IN  IF Contains(query, text) THEN One
        ELSE IF n > 1 /\ RLeq(<<8, 10>>, sequence_score)
             THEN sequence_score
        ELSE IF n > 1 /\ word_matches = n THEN <<7, 10>>
        ELSE IF n > 1 /\ 10 * word_matches > 7 * n
             THEN RAdd(<<5, 10>>, RMul(Rat(word_matches, n), <<2, 10>>))
        ELSE IF n = 1 /\ Contains(query_words[1], text) THEN Rat(6, 10)
        ELSE FallbackScore(query, text, query_words)

CalculateSimilarity(query, text) ==
    LET query_words == Split(query)
        n == Len(query_words)
        sequence_score ==
            CalculateSequenceSimilarity(query_words, Split(text))
        word_matches == WordMatches(query_words, text)
    IN  IF Contains(query, text) THEN One
        ELSE IF n > 1 /\ RLess(<<8, 10>>, sequence_score)
             THEN sequence_score
        ELSE IF n > 1 /\ word_matches = n THEN <<7, 10>>
        ELSE IF n > 1 /\ 10 * word_matches > 7 * n
             THEN RAdd(<<5, 10>>, RMul(Rat(word_matches, n), <<2, 10>>))
        ELSE IF n = 1 /\ Contains(query_words[1], text) THEN Rat(6, 10)
        ELSE FallbackScore(query, text, query_words)

(***************************************************************************)
(* RulesSearcher.search_by_rule_number: the first rule with that number,   *)
(* <<rule>>, or <<>> for None.                                             *)
(***************************************************************************)
\* mutant: the last rule with that number instead of the first
search_by_rule_number_last(rs, rule_number) ==
    LET hits == {i \in 1..Len(rs) : rs[i].rule_number = rule_number}
    IN  IF hits = {} THEN <<>>
        ELSE <<rs[CHOOSE i \in hits : \A h \in hits : i >= h]>>

search_by_rule_number(rs, rule_number) ==
    LET hits == {i \in 1..Len(rs) : rs[i].rule_number = rule_number}
    IN  IF hits = {} THEN <<>>
        ELSE <<rs[CHOOSE i \in hits : \A h \in hits : i <= h]>>

(***************************************************************************)
(* results.sort(key=lambda x: x['similarity_score'], reverse=True):        *)
(* list.sort is stable, also with reverse=True.                            *)
(***************************************************************************)
\* mutant: an unstable sort, x goes before the elements of equal score
InsertDescUnstable(sorted, x) ==
    LET keep == {i \in 1..Len(sorted) :
                     RLess(x.similarity_score, sorted[i].similarity_score)}
        n == Cardinality(keep)
    IN  SubSeq(sorted, 1, n) \o <<x>> \o SubSeq(sorted, n + 1, Len(sorted))

\* x goes after every element whose score is not lower than its own
InsertDesc(sorted, x) ==
    LET keep == {i \in 1..Len(sorted) :
                     RLeq(x.similarity_score, sorted[i].similarity_score)}
        n == Cardinality(keep)
    IN  SubSeq(sorted, 1, n) \o <<x>> \o SubSeq(sorted, n + 1, Len(sorted))

RECURSIVE SortDesc(_)
SortDesc(results) ==
    IF results = <<>> THEN <<>>
    ELSE InsertDesc(SortDesc(SubSeq(results, 1, Len(results) - 1)),
                    results[Len(results)])

\* results[:max_results]
SliceTo(results, max_results) ==
    IF max_results >= 0
    THEN SubSeq(results, 1, Min(max_results, Len(results)))
    ELSE SubSeq(results, 1, Max(0, Len(results) + max_results))

(***************************************************************************)
(* RulesSearcher.fuzzy_search.  A return value is                          *)
(* [raised, value, scored]: the exception raised ("" for none), the list   *)
(* returned, and how many times _calculate_similarity ran.                 *)
(***************************************************************************)
Returned(value, scored) == [raised |-> "", value |-> value, scored |-> scored]
Raised(exception) == [raised |-> exception, value |-> <<>>, scored |-> 0]

\* the dictionary built for the direct rule number
DirectResult(rule) ==
    [rule_number |-> rule.rule_number,
     text_eng |-> rule.text_eng,
     text_rus |-> rule.text_rus,
     similarity_score |-> One,
     matched_language |-> "Direct Rule Number",
     is_direct_rule |-> TRUE]

\* the dictionary built for a rule in the scoring loop, from its two scores
ScoredDict(rule, eng_score, rus_score) ==
    [rule_number |-> rule.rule_number,
     text_eng |-> rule.text_eng,
     text_rus |-> rule.text_rus,
     similarity_score |-> RMax(eng_score, rus_score),
     matched_language |->
         IF RLess(rus_score, eng_score) THEN "English" ELSE "Russian",
     is_direct_rule |-> FALSE]

\* mutant: equal scores are attributed to English (>= for >)
ScoredResultTieEnglish(rule, query_lower) ==
    CHOOSE result \in
        {[ScoredDict(rule, eng_score, rus_score)
             EXCEPT !.matched_language =
                 IF RLeq(rus_score, eng_score) THEN "English" ELSE "Russian"] :
            eng_score \in {CalculateSimilarity(query_lower,
                                               Lower(rule.text_eng))},
            rus_score \in {CalculateSimilarity(query_lower,
                                               Lower(rule.text_rus))}} : TRUE

\* one pass of the loop body: eng_score and rus_score are each computed
\* once, then the dictionary is built from them
ScoredResult(rule, query_lower) ==
    CHOOSE result \in
        {ScoredDict(rule, eng_score, rus_score) :
            eng_score \in {CalculateSimilarity(query_lower,
                                               Lower(rule.text_eng))},
            rus_score \in {CalculateSimilarity(query_lower,
                                               Lower(rule.text_rus))}} : TRUE

\* the loop "for rule in self.rules": the results appended, in corpus order
RECURSIVE ScoreRules(_, _, _)
ScoreRules(rs, query_lower, threshold) ==
    IF rs = <<>> THEN <<>>
    ELSE CHOOSE results \in
        {IF RLeq(threshold, r.similarity_score) THEN <<r>> \o rest ELSE rest :
            r \in {ScoredResult(Head(rs), query_lower)},
            rest \in {ScoreRules(Tail(rs), query_lower, threshold)}} : TRUE

\* mutant: the emptiness test without strip()
IsBlankNoStrip(query) == query = <<>>

\* "not query.strip()"
IsBlank(query) == Strip(query) = <<>>

\* mutant: the query is lower-cased but not trimmed
QueryLowerNoStrip(query) == Lower(query)

\* mutant: the query is trimmed but not lower-cased
QueryLowerNoLower(query) == Strip(query)

\* query_lower = query.lower().strip()
QueryLower(query) == Strip(Lower(query))

fuzzy_search(rs, query, threshold, max_results) ==
    IF IsBlank(query) THEN Returned(<<>>, 0)
    ELSE IF IsDigit(Strip(query))
    THEN LET rule_number == IntOf(Strip(query))
         IN  IF ~rule_number.ok THEN Raised("ValueError")
             ELSE LET result == search_by_rule_number(rs, rule_number.value)
                  IN  IF result # <<>>
                      THEN Returned(<<DirectResult(result[1])>>, 0)
                      ELSE Returned(<<>>, 0)
    ELSE CHOOSE returned \in
        {Returned(SliceTo(results, max_results), 2 * Len(rs)) :
            results \in {SortDesc(ScoreRules(rs, QueryLower(query),
                                             threshold))}} : TRUE

(***************************************************************************)
(* RulesSearcher.search_by_keywords.                                       *)
(***************************************************************************)
\* mutant: a keyword has to be in both languages ("and" for "or")
AllPresentBoth(rule, keywords) ==
    \A i \in 1..Len(keywords) :
        Contains(Lower(keywords[i]), Lower(rule.text_eng))
        /\ Contains(Lower(keywords[i]), Lower(rule.text_rus))

\* all_present after the inner loop over the keywords
AllPresent(rule, keywords) ==
    \A i \in 1..Len(keywords) :
        Contains(Lower(keywords[i]), Lower(rule.text_eng))
        \/ Contains(Lower(keywords[i]), Lower(rule.text_rus))

\* mutant: the lower of the two language scores is added (min for max)
RECURSIVE TotalScoreMin(_, _, _)
TotalScoreMin(rule, keywords, n) ==
    IF n = 0 THEN Zero
    ELSE LET keyword_lower == Lower(keywords[n])
             eng_score == CalculateSimilarity(keyword_lower,
                                              Lower(rule.text_eng))
             rus_score == CalculateSimilarity(keyword_lower,
                                              Lower(rule.text_rus))
         IN  RAdd(TotalScoreMin(rule, keywords, n - 1),
                  RMin(eng_score, rus_score))

\* total_score after the loop over the first n keywords
RECURSIVE TotalScore(_, _, _)
TotalScore(rule, keywords, n) ==
    IF n = 0 THEN Zero
    ELSE LET keyword_lower == Lower(keywords[n])
             eng_score == CalculateSimilarity(keyword_lower,
                                              Lower(rule.text_eng))
             rus_score == CalculateSimilarity(keyword_lower,
                                              Lower(rule.text_rus))
         IN  RAdd(TotalScore(rule, keywords, n - 1),
                  RMax(eng_score, rus_score))

\* mutant: the total is not divided by the number of keywords
AvgScoreNoDivide(rule, keywords) ==
    TotalScore(rule, keywords, Len(keywords))

AvgScore(rule, keywords) ==
    RDivInt(TotalScore(rule, keywords, Len(keywords)), Len(keywords))

KeywordResult(rule, keywords) ==
    [rule_number |-> rule.rule_number,
     text_eng |-> rule.text_eng,
     text_rus |-> rule.text_rus,
     similarity_score |-> AvgScore(rule, keywords),
     matched_language |-> "Both"]

RECURSIVE KeywordRules(_, _, _)
KeywordRules(rs, keywords, threshold) ==
    IF rs = <<>> THEN <<>>
    ELSE LET rest == KeywordRules(Tail(rs), keywords, threshold)
         IN  IF AllPresent(Head(rs), keywords)
                /\ RLeq(threshold, AvgScore(Head(rs), keywords))
             THEN <<KeywordResult(Head(rs), keywords)>> \o rest
             ELSE rest

search_by_keywords(rs, keywords, threshold) ==
    IF keywords = <<>> THEN Returned(<<>>, 0)
    ELSE Returned(SortDesc(KeywordRules(rs, keywords, threshold)),
                  2 * Len(keywords)
                    * Cardinality({i \in 1..Len(rs) :
                                       AllPresent(rs[i], keywords)}))

(***************************************************************************)
(* The inputs the model draws from.                                        *)
(***************************************************************************)
StringsUpTo(chars, n) == UNION {[1..k -> chars] : k \in 0..n}

\* a letter, a capital, whitespace, a decimal digit and a digit character
\* that is not decimal
QueryChars == {"a", "B", " ", "1", "²"}

\* the characters of the corpus texts that are no digits
LetterChars == {"a", "B", " "}

\* queries of letters and blanks up to the full length, queries with digit
\* characters one character shorter
Queries ==
    StringsUpTo(LetterChars, MaxQueryLen)
    \cup StringsUpTo(QueryChars, MaxQueryLen - 1)

\* default thresholds of the two searches are 0.6 and 0.5
Thresholds == {Zero, <<3, 5>>, <<11, 10>>}

\* (text_eng, text_rus) of the rules a corpus may hold
TextPairs ==
    {<< <<"a", " ", "B">>, <<"B">> >>,
     << <<"B">>, <<"a">> >>,
     << <<"1">>, <<" ">> >>}

RuleNumbers == 1..MaxRuleNumber

PossibleRules ==
    {[rule_number |-> n, text_eng |-> p[1], text_rus |-> p[2]] :
         n \in RuleNumbers, p \in TextPairs}

Corpora == UNION {[1..n -> PossibleRules] : n \in 0..MaxRules}

Keywords == {<<>>, <<"a">>, <<"B">>, <<"a", " ">>}
KeywordLists == UNION {[1..n -> Keywords] : n \in 0..MaxKeywords}

\* words joined by single spaces
RECURSIVE Join(_)
Join(words) ==
    IF words = <<>> THEN <<>>
    ELSE IF Len(words) = 1 THEN words[1]
    ELSE words[1] \o <<" ">> \o Join(Tail(words))

ScoreWords == {<<"a">>, <<"b">>, <<"a", "b">>}
ScoreTextWords == UNION {[1..n -> ScoreWords] : n \in 0..MaxTextWords}
ScoreQueryWords == UNION {[1..n -> ScoreWords] : n \in 0..MaxQueryWords}

\* strings of blanks and letters
RawStrings == StringsUpTo({" ", "a"}, MaxRawLen)

\* longer queries, of which a text can hold most words but not all
LongQueries == [1..LongQueryWords -> {<<"a">>, <<"a", "b">>}]

(***************************************************************************)
(* The searcher: a corpus loaded once, then any sequence of searches.      *)
(***************************************************************************)
NoCall == [op |-> "__init__"]
NoReturn == Returned(<<>>, 0)

\* no SimpleDailyRules has been constructed
NoDailyRules == [groups |-> <<>>, synced |-> TRUE]

\* no scheduler has been constructed
NoScheduler == [pc |-> "none"]

Init ==
    /\ rules \in Corpora
    /\ call = NoCall
    /\ ret = NoReturn
    /\ sched = NoScheduler
    /\ daily = NoDailyRules

FuzzySearch ==
    \E query \in Queries, threshold \in Thresholds,
       max_results \in (-1)..MaxResults :
        /\ call = NoCall
        /\ call' = [op |-> "fuzzy_search", query |-> query,
                    threshold |-> threshold, max_results |-> max_results]
        /\ ret' = fuzzy_search(rules, query, threshold, max_results)
        /\ UNCHANGED <<rules, sched, daily>>

SearchByKeywords ==
    \E keywords \in KeywordLists, threshold \in Thresholds :
        /\ call = NoCall
        /\ call' = [op |-> "search_by_keywords", keywords |-> keywords,
                    threshold |-> threshold]
        /\ ret' = search_by_keywords(rules, keywords, threshold)
        /\ UNCHANGED <<rules, sched, daily>>

SearchByRuleNumber ==
    \E rule_number \in 0..(MaxRuleNumber + 1) :
        /\ call = NoCall
        /\ call' = [op |-> "search_by_rule_number",
                    rule_number |-> rule_number]
        /\ ret' = Returned(search_by_rule_number(rules, rule_number), 0)
        /\ UNCHANGED <<rules, sched, daily>>

\* the caller is done with the result and asks for the next search (the
\* searcher is called synchronously, one search at a time)
NextSearch ==
    /\ call # NoCall
    /\ call' = NoCall
    /\ ret' = NoReturn
    /\ UNCHANGED <<rules, sched, daily>>

\* mutant: the repeated call finds the corpus in another order, as it would
\* had the earlier call sorted self.rules in place
CallResultReordered(rs, c) ==
    LET reordered == [i \in 1..Len(rs) |-> rs[Len(rs) + 1 - i]]
    IN  IF c.op = "fuzzy_search"
        THEN fuzzy_search(reordered, c.query, c.threshold, c.max_results)
        ELSE IF c.op = "search_by_keywords"
        THEN search_by_keywords(reordered, c.keywords, c.threshold)
        ELSE Returned(search_by_rule_number(reordered, c.rule_number), 0)

\* the method a call names, applied to the corpus and the call's arguments
CallResult(rs, c) ==
    IF c.op = "fuzzy_search"
    THEN fuzzy_search(rs, c.query, c.threshold, c.max_results)
    ELSE IF c.op = "search_by_keywords"
    THEN search_by_keywords(rs, c.keywords, c.threshold)
    ELSE Returned(search_by_rule_number(rs, c.rule_number), 0)

\* the caller makes the call it has just made once more
Repeat ==
    /\ call # NoCall
    /\ call' = call
    /\ ret' = CallResult(rules, call)
    /\ UNCHANGED <<rules, sched, daily>>

Next ==
    \/ FuzzySearch
    \/ SearchByKeywords
    \/ SearchByRuleNumber
    \/ Repeat
    \/ NextSearch

Spec == Init /\ [][Next]_vars

(***************************************************************************)
(* The scorer on its own: _calculate_similarity and                        *)
(* _calculate_sequence_similarity applied to a query and a text.           *)
(***************************************************************************)
InitScore ==
    /\ rules = <<>>
    /\ call = NoCall
    /\ ret = NoReturn
    /\ sched = NoScheduler
    /\ daily = NoDailyRules

CalcSimilarity ==
    \E query_words \in ScoreQueryWords \cup LongQueries,
       text_words \in ScoreTextWords :
        /\ call = NoCall
        /\ call' = [op |-> "_calculate_similarity",
                    query |-> Join(query_words), text |-> Join(text_words)]
        /\ ret' = Returned(CalculateSimilarity(Join(query_words),
                                               Join(text_words)), 1)
        /\ UNCHANGED <<rules, sched, daily>>

CalcSequenceSimilarity ==
    \E query_words \in ScoreQueryWords, text_words \in ScoreTextWords :
        /\ call = NoCall
        /\ call' = [op |-> "_calculate_sequence_similarity",
                    query_words |-> query_words, text_words |-> text_words]
        /\ ret' = Returned(CalculateSequenceSimilarity(query_words,
                                                       text_words), 0)
        /\ UNCHANGED <<rules, sched, daily>>

\* the scorer on strings as they come, blanks at the ends and between the
\* words included (search_by_keywords lower-cases a keyword but does not
\* trim it)
CalcSimilarityRaw ==
    \E query \in RawStrings, text \in RawStrings :
        /\ call = NoCall
        /\ call' = [op |-> "_calculate_similarity",
                    query |-> query, text |-> text]
        /\ ret' = Returned(CalculateSimilarity(query, text), 1)
        /\ UNCHANGED <<rules, sched, daily>>

NextScore ==
    \/ CalcSimilarity
    \/ CalcSimilarityRaw
    \/ CalcSequenceSimilarity
    \/ NextSearch

SpecScore == InitScore /\ [][NextScore]_vars

(***************************************************************************)
(* SimpleScheduler (src/simple_scheduler.py).  The clock counts ticks of   *)
(* one hour from midnight of day 0; datetime.now() is the tick, its date   *)
(* the day and its time the hour of the day.  A step runs the task from    *)
(* one await to the next.  asyncio.sleep(d) resumes the task d ticks later *)
(* or up to MaxLate ticks after that; a round of sending takes up to       *)
(* MaxRound ticks.                                                         *)
(***************************************************************************)
TicksPerDay == 24        \* timedelta(days=1)
SleepAfterRound == 1     \* asyncio.sleep(3600)
MaxNow == MaxDays * TicksPerDay - 1

\* daily_time: midnight, the default time(10, 0) and the last hour
DailyTimes == {0, 10, TicksPerDay - 1}

Date(t) == t \div TicksPerDay
TimeOfDay(t) == t % TicksPerDay

\* mutant: the run is never moved to tomorrow
NextRunToday(now, daily_time) == Date(now) * TicksPerDay + daily_time

\* next_run of wait_until_next_run
NextRun(now, daily_time) ==
    IF TimeOfDay(now) >= daily_time
    THEN Date(now) * TicksPerDay + daily_time + TicksPerDay
    ELSE Date(now) * TicksPerDay + daily_time

\* "await self.send_daily_rules_to_all_groups()" is entered: a round starts
StartRound(s) ==
    [s EXCEPT !.pc = "round", !.round_start = s.now,
              !.rounds = @ \cup {s.now}]

\* the test of "while self.running", then wait_until_next_run up to its
\* sleep, or on to the round when there is nothing to wait for
wait_until_next_run(s) ==
    IF ~s.running THEN [s EXCEPT !.pc = "done"]
    ELSE LET next_run == NextRun(s.now, s.daily_time)
             wait_seconds == next_run - s.now
         IN  IF wait_seconds > 0
             THEN [s EXCEPT !.pc = "wait", !.wake = s.now + wait_seconds]
             ELSE StartRound(s)

InitSched ==
    /\ rules = <<>>
    /\ call = NoCall
    /\ ret = NoReturn
    /\ sched \in {[pc |-> "created", running |-> FALSE, daily_time |-> d,
                    now |-> t, wake |-> 0, round_start |-> 0,
                    rounds |-> {}, armed |-> {}] :
                       d \in DailyTimes, t \in 0..(TicksPerDay - 1)}
    /\ daily = NoDailyRules

\* start(): self.running = True, then the loop up to its first sleep
start ==
    /\ sched.pc = "created"
    /\ sched' = wait_until_next_run([sched EXCEPT !.running = TRUE])
    /\ UNCHANGED <<rules, call, ret, daily>>

\* the sleep of wait_until_next_run is over: "if self.running" starts the
\* round, otherwise the loop test ends the task
WakeFromWait ==
    /\ sched.pc = "wait"
    /\ sched.now >= sched.wake
    /\ sched' = IF sched.running THEN StartRound(sched)
                ELSE [sched EXCEPT !.pc = "done"]
    /\ UNCHANGED <<rules, call, ret, daily>>

\* the round returns and the task sleeps for an hour
RoundEnds ==
    /\ sched.pc = "round"
    /\ sched' = [sched EXCEPT !.pc = "pause",
                              !.wake = sched.now + SleepAfterRound]
    /\ UNCHANGED <<rules, call, ret, daily>>

\* the hour is over: back to the loop test
WakeFromPause ==
    /\ sched.pc = "pause"
    /\ sched.now >= sched.wake
    /\ sched' = wait_until_next_run(sched)
    /\ UNCHANGED <<rules, call, ret, daily>>

\* stop(), called by another task while this one is suspended
stop ==
    /\ sched.pc \in {"wait", "round", "pause"}
    /\ sched.running
    /\ sched' = [sched EXCEPT !.running = FALSE]
    /\ UNCHANGED <<rules, call, ret, daily>>

\* an hour passes while the task is suspended.  armed records the days on
\* which daily_time arrived while the running scheduler was in its wait
Tick ==
    /\ sched.pc \in {"wait", "round", "pause"}
    /\ sched.now < MaxNow
    /\ sched.pc \in {"wait", "pause"} => sched.now < sched.wake + MaxLate
    /\ sched.pc = "round" => sched.now < sched.round_start + MaxRound
    /\ sched' = [sched EXCEPT
                     !.now = @ + 1,
                     !.armed = IF /\ sched.pc = "wait"
                                  /\ sched.running
                                  /\ TimeOfDay(sched.now + 1) = sched.daily_time
                               THEN @ \cup {Date(sched.now + 1)}
                               ELSE @]
    /\ UNCHANGED <<rules, call, ret, daily>>

NextSched ==
    \/ start
    \/ WakeFromWait
    \/ RoundEnds
    \/ WakeFromPause
    \/ stop
    \/ Tick

SpecSched == InitSched /\ [][NextSched]_vars

(***************************************************************************)
(* SimpleDailyRules (src/daily_rules.py).  self.groups maps a group id to  *)
(* its record [id, used, unused]; synced tells whether the groups file    *)
(* holds what self.groups holds.  A method's outcome is [daily, value,     *)
(* saved]: the object afterwards, the value returned (<<>> for None,       *)
(* <<data>> for a dictionary) and whether save_groups was called.          *)
(***************************************************************************)
GroupIds == 1..MaxGroupId

\* list(range(1, 96))
AllDailyRules == [i \in 1..LastDailyRule |-> i]

\* the list without the first occurrence of x (list.remove)
RECURSIVE Remove(_, _)
Remove(list, x) ==
    IF list = <<>> THEN <<>>
    ELSE IF Head(list) = x THEN Tail(list)
    ELSE <<Head(list)>> \o Remove(Tail(list), x)

\* save_groups: the file takes the groups when the write succeeds (ok);
\* it is called with the groups just changed
save_groups(d, ok) == [d EXCEPT !.synced = ok]

add_group(d, group_id, ok) ==
    IF group_id \notin DOMAIN d.groups
    THEN LET groups == [g \in DOMAIN d.groups \cup {group_id} |->
                           IF g = group_id
                           THEN [id |-> group_id, used |-> <<>>,
                                 unused |-> AllDailyRules]
                           ELSE d.groups[g]]
         IN  [daily |-> save_groups([d EXCEPT !.groups = groups], ok),
              value |-> ok, saved |-> TRUE]
    ELSE [daily |-> d, value |-> TRUE, saved |-> FALSE]

\* mutant: the refill copies used into unused and forgets to empty used
RefillKeepUsed(group) ==
    IF group.unused # <<>> THEN group
    ELSE IF group.used # <<>>
    THEN [group EXCEPT !.unused = group.used]
    ELSE [group EXCEPT !.unused = AllDailyRules]

\* "if not unused": unused is refilled from used, or created anew
Refill(group) ==
    IF group.unused # <<>> THEN group
    ELSE IF group.used # <<>>
    THEN [group EXCEPT !.unused = group.used, !.used = <<>>]
    ELSE [group EXCEPT !.unused = AllDailyRules]

\* random.choice(unused): the random number reduced to an index of the list
RandomChoice(list, random) == list[((random - 1) % Len(list)) + 1]

\* mutant: a group that is not registered is registered by the call
get_daily_rule_registering(d, rs, group_id, random, ok) ==
    IF group_id \notin DOMAIN d.groups
    THEN [daily |-> add_group(d, group_id, ok).daily, value |-> <<>>,
          saved |-> TRUE]
    ELSE LET group == Refill(d.groups[group_id])
         IN  IF group.unused = <<>>
             THEN [daily |-> [d EXCEPT !.groups[group_id] = group],
                   value |-> <<>>, saved |-> FALSE]
             ELSE LET rule_number == RandomChoice(group.unused, random)
                      moved == [group EXCEPT
                                   !.unused = Remove(@, rule_number),
                                   !.used = Append(@, rule_number)]
                      rule == search_by_rule_number(rs, rule_number)
                  IN  [daily |-> save_groups(
                                     [d EXCEPT !.groups[group_id] = moved],
                                     ok),
                       value |->
                           IF rule # <<>>
                           THEN <<[rule_number |-> rule_number,
                                   text_eng |-> rule[1].text_eng,
                                   text_rus |-> rule[1].text_rus,
                                   used_count |-> Len(moved.used),
                                   unused_count |-> Len(moved.unused)]>>
                           ELSE <<>>,
                       saved |-> TRUE]

get_daily_rule(d, rs, group_id, random, ok) ==
    IF group_id \notin DOMAIN d.groups
    THEN [daily |-> d, value |-> <<>>, saved |-> FALSE]
    ELSE LET group == Refill(d.groups[group_id])
         IN  IF group.unused = <<>>
             THEN [daily |-> [d EXCEPT !.groups[group_id] = group],
                   value |-> <<>>, saved |-> FALSE]
             ELSE LET rule_number == RandomChoice(group.unused, random)
                      moved == [group EXCEPT
                                   !.unused = Remove(@, rule_number),
                                   !.used = Append(@, rule_number)]
                      rule == search_by_rule_number(rs, rule_number)
                  IN  [daily |-> save_groups(
                                     [d EXCEPT !.groups[group_id] = moved],
                                     ok),
                       value |->
                           IF rule # <<>>
                           THEN <<[rule_number |-> rule_number,
                                   text_eng |-> rule[1].text_eng,
                                   text_rus |-> rule[1].text_rus,
                                   used_count |-> Len(moved.used),
                                   unused_count |-> Len(moved.unused)]>>
                           ELSE <<>>,
                       saved |-> TRUE]

\* the corpus the searcher of SimpleDailyRules loads: every daily rule, or
\* all but the last
DailyCorpora ==
    {[i \in 1..n |-> [rule_number |-> i, text_eng |-> <<"a">>,
                      text_rus |-> <<"B">>]] :
         n \in {LastDailyRule - 1, LastDailyRule}}

InitDaily ==
    /\ rules \in DailyCorpora
    /\ call = NoCall
    /\ ret = NoReturn
    /\ sched = NoScheduler
    /\ daily = NoDailyRules

AddGroup ==
    \E group_id \in GroupIds, ok \in BOOLEAN :
        LET out == add_group(daily, group_id, ok)
        IN  /\ call' = [op |-> "add_group", group_id |-> group_id,
                        saved |-> out.saved]
            /\ ret' = Returned(out.value, 0)
            /\ daily' = out.daily
            /\ UNCHANGED <<rules, sched>>

GetDailyRule ==
    \E group_id \in GroupIds, random \in 1..LastDailyRule, ok \in BOOLEAN :
        LET out == get_daily_rule(daily, rules, group_id, random, ok)
        IN  /\ call' = [op |-> "get_daily_rule", group_id |-> group_id,
                        saved |-> out.saved]
            /\ ret' = Returned(out.value, 0)
            /\ daily' = out.daily
            /\ UNCHANGED <<rules, sched>>

NextDaily == AddGroup \/ GetDailyRule

SpecDaily == InitDaily /\ [][NextDaily]_vars

(***************************************************************************)
(* One round of the scheduler: send_daily_rules_to_all_groups and          *)
(* send_daily_rule_to_group (src/simple_scheduler.py).  The scheduler      *)
(* holds its own SimpleDailyRules, loaded from the groups file when it is  *)
(* constructed; nothing else adds a key to its groups, so the loop         *)
(* iterates the key order of the loaded dictionary.  A key is written by   *)
(* str(group_id) and read back by int(group_id_str): the model keeps the   *)
(* number.  sched holds the position of the task in the round: keys, the   *)
(* key order of self.daily_rules.groups; i, the position of the for loop;  *)
(* attempted, the groups get_daily_rule was called for; sent and failed,   *)
(* the groups whose send_message returned and raised; ended, the way the   *)
(* round left send_daily_rules_to_all_groups.                              *)
(***************************************************************************)
\* the orders in which a list can hold every number of the rotation
RuleOrders ==
    {p \in [1..LastDailyRule -> 1..LastDailyRule] :
         \A a, b \in 1..LastDailyRule : a # b => p[a] # p[b]}

\* the records get_daily_rule and add_group leave for a group: a fresh
\* group, or some picks in used and the rest, in any order, in unused
GroupRecords(group_id) ==
    {[id |-> group_id, used |-> <<>>, unused |-> AllDailyRules]}
    \cup {[id |-> group_id,
           used |-> SubSeq(p, 1, k),
           unused |-> SubSeq(p, k + 1, LastDailyRule)] :
              p \in RuleOrders, k \in 1..LastDailyRule}

\* json.load of the groups file as save_groups wrote it
LoadedGroups ==
    UNION {{groups \in [ids -> UNION {GroupRecords(g) : g \in ids}] :
                \A g \in ids : groups[g].id = g} :
               ids \in SUBSET GroupIds}

\* the orders in which the dictionary can hold its keys
KeyOrders(groups) ==
    {keys \in [1..Cardinality(DOMAIN groups) -> DOMAIN groups] :
         \A a, b \in 1..Cardinality(DOMAIN groups) :
             a # b => keys[a] # keys[b]}

\* format_daily_rule_message: the heading with the rule number, then the
\* two texts
format_daily_rule_message(rule_data) ==
    <<rule_data.rule_number, rule_data.text_eng, rule_data.text_rus>>

InitRound ==
    /\ rules \in DailyCorpora
    /\ call = NoCall
    /\ ret = NoReturn
    /\ \E groups \in LoadedGroups :
           /\ daily = [groups |-> groups, synced |-> TRUE]
           /\ \E keys \in KeyOrders(groups) :
                  sched = [pc |-> "call", keys |-> keys, i |-> 1,
                           attempted |-> <<>>, sent |-> <<>>,
                           failed |-> <<>>, message |-> <<>>,
                           ended |-> ""]

\* send_daily_rules_to_all_groups is called: "if not groups: return",
\* otherwise the for loop takes the first key
send_daily_rules_to_all_groups ==
    /\ sched.pc = "call"
    /\ sched' = IF sched.keys = <<>>
                THEN [sched EXCEPT !.pc = "done", !.ended = "no groups"]
                ELSE [sched EXCEPT !.pc = "get"]
    /\ UNCHANGED <<rules, call, ret, daily>>

\* send_daily_rule_to_group after get_daily_rule: "if not rule_data:
\* return" leads to the loop's sleep, otherwise the message is formatted
AfterGet(s, group_id, value) ==
    IF value = <<>>
    THEN [s EXCEPT !.pc = "sleep", !.attempted = Append(@, group_id)]
    ELSE [s EXCEPT !.pc = "send",
                   !.attempted = Append(@, group_id),
                   !.message = format_daily_rule_message(value[1])]

\* the loop converts the key and send_daily_rule_to_group gets the rule of
\* the day
GetRuleForGroup ==
    /\ sched.pc = "get"
    /\ \E random \in 1..LastDailyRule, ok \in BOOLEAN :
           LET group_id == sched.keys[sched.i]
               out == get_daily_rule(daily, rules, group_id, random, ok)
           IN  /\ call' = [op |-> "get_daily_rule", group_id |-> group_id,
                           saved |-> out.saved]
               /\ ret' = Returned(out.value, 0)
               /\ daily' = out.daily
               /\ sched' = AfterGet(sched, group_id, out.value)
    /\ UNCHANGED rules

\* mutant: the exception of send_message leaves send_daily_rule_to_group
\* and the loop, and the handler of send_daily_rules_to_all_groups ends the
\* round
AfterSendPropagates(s, group_id, raised) ==
    IF raised
    THEN [s EXCEPT !.pc = "done", !.ended = "error",
                   !.failed = Append(@, group_id), !.message = <<>>]
    ELSE [s EXCEPT !.pc = "sleep", !.sent = Append(@, group_id),
                   !.message = <<>>]

\* bot.send_message returns or raises; "except Exception" of
\* send_daily_rule_to_group logs the exception, and the call returns to the
\* loop's sleep either way
AfterSend(s, group_id, raised) ==
    IF raised
    THEN [s EXCEPT !.pc = "sleep", !.failed = Append(@, group_id),
                   !.message = <<>>]
    ELSE [s EXCEPT !.pc = "sleep", !.sent = Append(@, group_id),
                   !.message = <<>>]

SendMessage ==
    /\ sched.pc = "send"
    /\ \E raised \in BOOLEAN :
           sched' = AfterSend(sched, sched.keys[sched.i], raised)
    /\ UNCHANGED <<rules, call, ret, daily>>

\* asyncio.sleep(1) returns: the for loop takes the next key, or ends and
\* the round logs that it sent to all groups
NextGroup ==
    /\ sched.pc = "sleep"
    /\ sched' = IF sched.i < Len(sched.keys)
                THEN [sched EXCEPT !.pc = "get", !.i = @ + 1]
                ELSE [sched EXCEPT !.pc = "done", !.ended = "sent to all"]
    /\ UNCHANGED <<rules, call, ret, daily>>

NextRound ==
    \/ send_daily_rules_to_all_groups
    \/ GetRuleForGroup
    \/ SendMessage
    \/ NextGroup

SpecRound == InitRound /\ [][NextRound]_vars

(***************************************************************************)
(* Shorthands for the properties.                                          *)
(***************************************************************************)
IsFuzzy == call.op = "fuzzy_search"
IsKeywords == call.op = "search_by_keywords"

\* every character is a decimal digit: the string denotes a number
IsDecimal(s) == s # <<>> /\ \A i \in 1..Len(s) : s[i] \in DecimalChars

\* a fuzzy_search call that reaches the scoring loop
IsScoring == IsFuzzy /\ ~IsBlank(call.query) /\ ~IsDigit(Strip(call.query))

InUnit(x) == RLeq(Zero, x) /\ RLeq(x, One)

SameRule(result, rule) ==
    /\ result.rule_number = rule.rule_number
    /\ result.text_eng = rule.text_eng
    /\ result.text_rus = rule.text_rus

\* the positions of the corpus
Positions == 1..Len(rules)

(***************************************************************************)
(* C1.  The list fuzzy_search returns for a non-numeric query is sorted    *)
(* by similarity_score, highest first, and returned rules with equal       *)
(* scores keep their corpus order: the results can be traced back to       *)
(* distinct corpus positions so that equal scores come in increasing       *)
(* position.                                                               *)
(***************************************************************************)
C1_SortedStable ==
    IsScoring =>
        LET res == ret.value
        IN  /\ \A p, q \in 1..Len(res) :
                   p < q => RLeq(res[q].similarity_score,
                                 res[p].similarity_score)
            /\ \E idx \in [1..Len(res) -> Positions] :
                   /\ \A p \in 1..Len(res) : SameRule(res[p], rules[idx[p]])
                   /\ \A p, q \in 1..Len(res) : p # q => idx[p] # idx[q]
                   /\ \A p, q \in 1..Len(res) :
                          (p < q /\ res[p].similarity_score
                                      = res[q].similarity_score)
                          => idx[p] < idx[q]

\* two different rules returned with the same score
C1_Witness ==
    /\ IsScoring
    /\ Len(ret.value) = 2
    /\ ret.value[1].similarity_score = ret.value[2].similarity_score
    /\ ~SameRule(ret.value[1], rules[2])

(***************************************************************************)
(* C2.  A query that is a decimal number after trimming returns the first  *)
(* rule with that number as the only result, with score 1.0 and            *)
(* is_direct_rule, or nothing when no rule has the number, whatever the    *)
(* threshold; and is_direct_rule is set only there, in a one-element list. *)
(***************************************************************************)
C2_DirectLookup ==
    /\ (IsFuzzy /\ IsDecimal(Strip(call.query))) =>
           LET n == DecimalValue(Strip(call.query))
               hits == {i \in Positions : rules[i].rule_number = n}
           IN  /\ ret.raised = ""
               /\ hits = {} => ret.value = <<>>
               /\ hits # {} =>
                      LET first == CHOOSE i \in hits : \A h \in hits : i <= h
                      IN  /\ Len(ret.value) = 1
                          /\ SameRule(ret.value[1], rules[first])
                          /\ ret.value[1].similarity_score = One
                          /\ ret.value[1].is_direct_rule
    /\ IsFuzzy =>
           \A p \in 1..Len(ret.value) :
               ret.value[p].is_direct_rule =>
                   /\ IsDecimal(Strip(call.query))
                   /\ Len(ret.value) = 1
    /\ IsKeywords =>
           \A p \in 1..Len(ret.value) :
               "is_direct_rule" \notin DOMAIN ret.value[p]

\* a direct hit under a threshold above 1.0, in a corpus that holds the
\* number twice
C2_Witness ==
    /\ IsFuzzy
    /\ IsDecimal(Strip(call.query))
    /\ call.threshold = <<11, 10>>
    /\ Len(ret.value) = 1
    /\ Len(rules) = 2
    /\ rules[1].rule_number = rules[2].rule_number
    /\ rules[1] # rules[2]

(***************************************************************************)
(* C3.  For every query and every max_results = k >= 0, fuzzy_search       *)
(* returns at most k entries, the first k of the full list.                *)
(***************************************************************************)
C3_AtMostMaxResults ==
    (IsFuzzy /\ ret.raised = "" /\ call.max_results >= 0) =>
        LET full == fuzzy_search(rules, call.query, call.threshold,
                                 Len(rules) + 1).value
        IN  /\ Len(ret.value) <= call.max_results
            /\ ret.value = SubSeq(full, 1, Min(call.max_results, Len(full)))

(***************************************************************************)
(* C4.  fuzzy_search returns a list for every query and never raises.      *)
(***************************************************************************)
C4_NeverRaises == IsFuzzy => ret.raised = ""

(***************************************************************************)
(* C5.  Every similarity_score returned by fuzzy_search or                 *)
(* search_by_keywords lies in [0,1], and so does every value the scorer    *)
(* and the sequence matcher give for the call's query (or keywords)        *)
(* against a text of the corpus.                                           *)
(***************************************************************************)
\* the lower-cased strings the call hands to the scorer
ScoredQueries ==
    IF IsScoring THEN {QueryLower(call.query)}
    ELSE IF IsKeywords THEN {Lower(k) : k \in Range(call.keywords)}
    ELSE {}

CorpusTexts ==
    {Lower(rules[i].text_eng) : i \in Positions}
        \cup {Lower(rules[i].text_rus) : i \in Positions}

\* C5: every similarity_score of a result, and every value the two scorers
\* return, lies in [0, 1]
C5_ScoresInUnit ==
    /\ (IsFuzzy \/ IsKeywords) =>
           \A p \in 1..Len(ret.value) : InUnit(ret.value[p].similarity_score)
    /\ \A q \in ScoredQueries : \A t \in CorpusTexts :
           /\ InUnit(CalculateSimilarity(q, t))
           /\ InUnit(CalculateSequenceSimilarity(Split(q), Split(t)))

\* a fuzzy search that returns a score strictly between 0 and 1
C5_Witness ==
    /\ IsScoring
    /\ \E p \in 1..Len(ret.value) :
           /\ RLess(Zero, ret.value[p].similarity_score)
           /\ RLess(ret.value[p].similarity_score, One)

(***************************************************************************)
(* C6.  search_by_keywords returns a rule only if every keyword,           *)
(* lower-cased, is a substring of the lower-cased English text or of the   *)
(* lower-cased Russian text (each keyword on its own), and it returns      *)
(* every such rule whose averaged score reaches the threshold: as many     *)
(* results as there are such rules.                                        *)
(***************************************************************************)
KeywordIn(keyword, rule) ==
    \/ Contains(Lower(keyword), Lower(rule.text_eng))
    \/ Contains(Lower(keyword), Lower(rule.text_rus))

Qualifies(rule, keywords) ==
    \A k \in Range(keywords) : KeywordIn(k, rule)

\* C6: search_by_keywords returns exactly the rules that hold every
\* lower-cased keyword in one of their lower-cased texts and whose averaged
\* score reaches the threshold, with no cap on their number
C6_KeywordsAnd ==
    (IsKeywords /\ call.keywords # <<>>) =>
        LET due == {i \in Positions :
                        /\ Qualifies(rules[i], call.keywords)
                        /\ RLeq(call.threshold,
                                AvgScore(rules[i], call.keywords))}
        IN  /\ \A p \in 1..Len(ret.value) :
                   \E i \in Positions :
                       /\ SameRule(ret.value[p], rules[i])
                       /\ Qualifies(rules[i], call.keywords)
            /\ \A i \in due :
                   \E p \in 1..Len(ret.value) :
                       SameRule(ret.value[p], rules[i])
            /\ Len(ret.value) = Cardinality(due)

\* a rule returned for two keywords, one found only in its English text,
\* the other only in its Russian text
C6_Witness ==
    /\ IsKeywords
    /\ Len(call.keywords) = 2
    /\ \E p \in 1..Len(ret.value) :
           LET r == ret.value[p]
               k1 == Lower(call.keywords[1])
               k2 == Lower(call.keywords[2])
           IN  /\ Contains(k1, Lower(r.text_eng))
               /\ ~Contains(k1, Lower(r.text_rus))
               /\ Contains(k2, Lower(r.text_rus))
               /\ ~Contains(k2, Lower(r.text_eng))

(***************************************************************************)
(* C7.  When the normalized query is a substring of the lower-cased text   *)
(* the scorer returns exactly 1.0; and fuzzy_search with a rule's own      *)
(* text as query returns that rule with similarity_score 1.0.              *)
(***************************************************************************)
\* best of the two language scores of a rule, as the scoring loop has it
BestScore(rule, query_lower) ==
    RMax(CalculateSimilarity(query_lower, Lower(rule.text_eng)),
         CalculateSimilarity(query_lower, Lower(rule.text_rus)))

SubstringScoresOne ==
    /\ \A q \in ScoredQueries : \A t \in CorpusTexts :
           Contains(q, t) => CalculateSimilarity(q, t) = One
    /\ IsScoring =>
           \A p \in 1..Len(ret.value) :
               (\/ Contains(QueryLower(call.query),
                            Lower(ret.value[p].text_eng))
                \/ Contains(QueryLower(call.query),
                            Lower(ret.value[p].text_rus)))
               => ret.value[p].similarity_score = One

OwnTexts(rule) == {rule.text_eng, rule.text_rus}

\* C7 as stated: a query that is a substring of the text scores 1.0, and
\* fuzzy_search with a rule's own text as query returns that rule with 1.0
C7_SelfQueryReturned ==
    /\ SubstringScoresOne
    /\ IsFuzzy =>
           \A i \in Positions :
               (/\ call.query \in OwnTexts(rules[i])
                /\ RLeq(call.threshold, One)
                /\ call.max_results >= Len(rules)) =>
                   /\ ret.raised = ""
                   /\ \E p \in 1..Len(ret.value) :
                          /\ SameRule(ret.value[p], rules[i])
                          /\ ret.value[p].similarity_score = One

\* C7 as amended: the rule is returned with score 1.0 when its text is
\* neither blank nor accepted by the digit test, threshold <= 1.0 and
\* max_results exceeds the number of earlier rules that also score 1.0;
\* it then stands right after those rules
C7_SelfQueryAmended ==
    /\ SubstringScoresOne
    /\ IsFuzzy =>
           \A i \in Positions :
               LET earlier == {j \in 1..(i - 1) :
                                   BestScore(rules[j],
                                             QueryLower(call.query)) = One}
                   p == Cardinality(earlier) + 1
               IN  (/\ call.query \in OwnTexts(rules[i])
                    /\ \E c \in Range(call.query) : c \notin Whitespace
                    /\ \E c \in Range(call.query) :
                           c \notin Whitespace \cup DigitChars
                    /\ RLeq(call.threshold, One)
                    /\ call.max_results >= p)
                   => /\ ret.raised = ""
                      /\ Len(ret.value) >= p
                      /\ SameRule(ret.value[p], rules[i])
                      /\ ret.value[p].similarity_score = One

\* the second rule's own text, with a capital in it, as query: the rule is
\* returned second, after an earlier rule that also scores 1.0
C7_Witness ==
    /\ IsScoring
    /\ Len(rules) = 2
    /\ call.query = rules[2].text_eng
    /\ Lower(call.query) # call.query
    /\ Len(ret.value) = 2
    /\ SameRule(ret.value[2], rules[2])
    /\ ~SameRule(ret.value[1], rules[2])
    /\ ret.value[2].similarity_score = One

(***************************************************************************)
(* C8.  On the scoring path fuzzy_search keeps, before truncation,         *)
(* exactly the rules whose best = max(English score, Russian score) is     *)
(* >= threshold; a kept result carries best as similarity_score, and       *)
(* matched_language is English only when the English score is strictly     *)
(* greater, so a tie goes to Russian.                                      *)
(***************************************************************************)
C8_ThresholdAndLanguage ==
    IsScoring =>
        LET q == QueryLower(call.query)
            eng(i) == CalculateSimilarity(q, Lower(rules[i].text_eng))
            rus(i) == CalculateSimilarity(q, Lower(rules[i].text_rus))
            best(i) == IF RLeq(rus(i), eng(i)) THEN eng(i) ELSE rus(i)
            kept == {i \in Positions : RLeq(call.threshold, best(i))}
        IN  /\ \A p \in 1..Len(ret.value) :
                   \E i \in kept :
                       /\ SameRule(ret.value[p], rules[i])
                       /\ ret.value[p].similarity_score = best(i)
                       /\ ret.value[p].matched_language = "English"
                              <=> RLess(rus(i), eng(i))
                       /\ ret.value[p].matched_language = "Russian"
                              <=> RLeq(eng(i), rus(i))
            /\ call.max_results >= Len(rules) =>
                   /\ Len(ret.value) = Cardinality(kept)
                   /\ \A i \in kept :
                          \E p \in 1..Len(ret.value) :
                              SameRule(ret.value[p], rules[i])

\* an untruncated search that drops a rule below the threshold and keeps
\* one whose two scores are equal, attributed to Russian
C8_Witness ==
    /\ IsScoring
    /\ call.max_results >= Len(rules)
    /\ Len(ret.value) < Len(rules)
    /\ \E p \in 1..Len(ret.value) :
           /\ ret.value[p].matched_language = "Russian"
           /\ CalculateSimilarity(QueryLower(call.query),
                                  Lower(ret.value[p].text_eng))
                  = CalculateSimilarity(QueryLower(call.query),
                                        Lower(ret.value[p].text_rus))

(***************************************************************************)
(* C9.  fuzzy_search returns the empty list for an empty or                *)
(* whitespace-only query, and search_by_keywords for an empty keyword      *)
(* list, whatever the corpus, threshold and max_results, and no rule is    *)
(* scored.                                                                 *)
(***************************************************************************)
C9_EmptyInputs ==
    /\ (IsFuzzy /\ \A c \in Range(call.query) : c \in Whitespace) =>
           /\ ret.raised = ""
           /\ ret.value = <<>>
           /\ ret.scored = 0
    /\ (IsKeywords /\ call.keywords = <<>>) =>
           /\ ret.raised = ""
           /\ ret.value = <<>>
           /\ ret.scored = 0

\* a whitespace-only query against a corpus with rules, threshold 0 and
\* room for results
C9_Witness ==
    /\ IsFuzzy
    /\ call.query = <<" ", " ">>
    /\ Len(rules) > 0
    /\ call.threshold = Zero
    /\ call.max_results > 0
    /\ ret.value = <<>>

(***************************************************************************)
(* C10.  A two-word query that is no substring of the text, whose words    *)
(* stand in the text in query order with exactly one other word between    *)
(* them, gets a score from the sequence-order branch that is strictly      *)
(* greater than its score against any text holding both words farther      *)
(* apart than the matcher's window; and the sequence score does not        *)
(* increase with the gap count, the penalty staying within 0.3 (a full     *)
(* match never scores below 0.6).                                          *)
(***************************************************************************)
IsSimilarityCall == call.op = "_calculate_similarity"
IsSequenceCall == call.op = "_calculate_sequence_similarity"

\* the two (different) words in order with exactly one other word between
\* them
OneWordBetween(query_words, text_words) ==
    \E p \in 1..(Len(text_words) - 2) :
        /\ query_words[1] # query_words[2]
        /\ text_words[p] = query_words[1]
        /\ text_words[p + 2] = query_words[2]
        /\ text_words[p + 1] \notin Range(query_words)

\* both words are in the text and no two occurrences are within reach of
\* the window (the second word is looked for up to three places after the
\* first)
FarApart(query_words, text_words) ==
    /\ query_words[1] \in Range(text_words)
    /\ query_words[2] \in Range(text_words)
    /\ \A p, r \in 1..Len(text_words) :
           (/\ text_words[p] = query_words[1]
            /\ text_words[r] = query_words[2]
            /\ p # r)
           => (r - p > 3 \/ p - r > 3)

\* C10: two query words one word apart in the text score, through the
\* sequence branch, strictly above the same words farther apart than the
\* window; the gap penalty never exceeds 0.3
C10_NearBeatsFar ==
    /\ (IsSimilarityCall
        /\ Len(Split(call.query)) = 2
        /\ ~Contains(call.query, call.text)
        /\ OneWordBetween(Split(call.query), Split(call.text))) =>
           /\ RLess(<<8, 10>>, ret.value)
           /\ ret.value = CalculateSequenceSimilarity(Split(call.query),
                                                      Split(call.text))
           /\ \A far \in ScoreTextWords :
                  (/\ FarApart(Split(call.query), far)
                   /\ ~Contains(call.query, Join(far)))
                  => RLess(CalculateSimilarity(call.query, Join(far)),
                           ret.value)
    /\ IsSequenceCall =>
           /\ ret.value # Zero => RLeq(<<6, 10>>, ret.value)
           /\ \A g \in 0..Len(call.text_words) :
                  /\ RLeq(SequenceScore(g + 1), SequenceScore(g))
                  /\ RLeq(<<6, 10>>, SequenceScore(g))

OneRoundPerDay ==
    \A r1, r2 \in sched.rounds : Date(r1) = Date(r2) => r1 = r2

NotBeforeDailyTime ==
    \A r \in sched.rounds : TimeOfDay(r) >= sched.daily_time

\* a day whose daily_time arrived in the wait and which is over, with the
\* scheduler still running, saw a round start
ArmedDayHasRound ==
    \A d \in sched.armed :
        (sched.running /\ Date(sched.now) > d)
        => \E r \in sched.rounds : Date(r) = d

NextRoundNextDay ==
    \A r1, r2 \in sched.rounds :
        r1 < r2 => r2 >= (Date(r1) + 1) * TicksPerDay + sched.daily_time

\* C12 as stated: the same four properties for every daily_time
C12_OneRoundADay ==
    sched.pc \notin {"none", "created"} =>
        /\ OneRoundPerDay
        /\ NotBeforeDailyTime
        /\ ArmedDayHasRound
        /\ NextRoundNextDay

\* C12 as amended: at most one round a day, none before daily_time, a round
\* on every day the scheduler waited into, the next round not before the
\* next day's daily_time, for a daily_time that no late wake-up carries
\* past midnight
C12_OneRoundADaySameDay ==
    (/\ sched.pc \notin {"none", "created"}
     /\ sched.daily_time + MaxLate < TicksPerDay) =>
        /\ OneRoundPerDay
        /\ NotBeforeDailyTime
        /\ ArmedDayHasRound
        /\ NextRoundNextDay

\* two rounds on consecutive days, the first on a day whose daily_time
\* arrived during the wait, and the scheduler waiting for a third
C12_Witness ==
    /\ sched.pc = "wait"
    /\ sched.running
    /\ sched.daily_time + MaxLate < TicksPerDay
    /\ Cardinality(sched.rounds) = 2
    /\ \E d \in sched.armed : \E r \in sched.rounds : Date(r) = d

(***************************************************************************)
(* C13.  _calculate_sequence_similarity on a query of two or more words    *)
(* returns the best score over every start position i of text_words,       *)
(* 0 <= i < len(text_words), from which the windowed search matches all    *)
(* query words, and 0.0 when no start position does: no start position is  *)
(* skipped.                                                                *)
(***************************************************************************)
\* every position of the text
EveryStart(text_words) == 0..(Len(text_words) - 1)

\* the best score over the given start positions
BestFrom(starts, query_words, text_words) ==
    BestOver({SequenceScore(MatchWords(query_words, text_words, 1, i, 0)) :
                  i \in {s \in starts :
                             MatchWords(query_words, text_words, 1, s, 0)
                                 # -1}})

\* C13: _calculate_sequence_similarity returns the best score over every
\* start position of text_words that matches all query words, 0.0 only if
\* none does
C13_EveryStartTried ==
    (IsSequenceCall /\ Len(call.query_words) >= 2) =>
        ret.value = BestFrom(EveryStart(call.text_words),
                             call.query_words, call.text_words)

(***************************************************************************)
(* C14.  When _calculate_sequence_similarity returns a score greater than  *)
(* 0, the query words occur in the text in the query's order: there are    *)
(* strictly increasing text positions p1 < ... < pn whose words are the    *)
(* query words, so no text word is matched twice and none before the       *)
(* previous match.                                                         *)
(***************************************************************************)
InOrder(query_words, text_words) ==
    \E p \in [1..Len(query_words) -> 1..Len(text_words)] :
        /\ \A j \in 1..Len(query_words) : text_words[p[j]] = query_words[j]
        /\ \A j \in 1..(Len(query_words) - 1) : p[j] < p[j + 1]

\* C14: a score above 0 from _calculate_sequence_similarity means the query
\* words occur in the text at strictly increasing positions
C14_MatchedInOrder ==
    (IsSequenceCall /\ RLess(Zero, ret.value)) =>
        InOrder(call.query_words, call.text_words)

(***************************************************************************)
(* C15.  For a query of two or more words that is not a substring of the   *)
(* text, _calculate_similarity returns: the sequence-order score when it   *)
(* is strictly greater than 0.8; otherwise 0.7 when all word_count query   *)
(* words are substrings of the text; otherwise 0.5 + (m / word_count) *    *)
(* 0.2 when m > 0.7 * word_count; otherwise the fallback composite.  A     *)
(* sequence-order score of 0.8 or less is never what the sequence branch   *)
(* returns.                                                                *)
(***************************************************************************)
\* the call's query split into words, and the pieces the cascade looks at
CallWords == Split(call.query)
CallSequenceScore == CalculateSequenceSimilarity(CallWords, Split(call.text))
CallWordMatches == WordMatches(CallWords, call.text)

\* a _calculate_similarity call with a query of several words that is not
\* a substring of the text
IsCascadeCall ==
    /\ IsSimilarityCall
    /\ Len(CallWords) >= 2
    /\ ~Contains(call.query, call.text)

\* C15: for a query of two or more words that is no substring of the text
\* the result is the sequence score if above 0.8, else 0.7 if all words are
\* substrings, else 0.5 + (m / word_count) * 0.2 if m > 0.7 * word_count,
\* else the fallback composite
C15_Cascade ==
    IsCascadeCall =>
        LET n == Len(CallWords)
            m == CallWordMatches
            high == RLess(<<8, 10>>, CallSequenceScore)
        IN  /\ high => ret.value = CallSequenceScore
            /\ (~high /\ m = n) => ret.value = <<7, 10>>
            /\ (~high /\ m # n /\ 10 * m > 7 * n)
                   => ret.value = RAdd(<<1, 2>>, Rat(2 * m, 10 * n))
            /\ (~high /\ m # n /\ 10 * m <= 7 * n)
                   => ret.value = FallbackScore(call.query, call.text,
                                                CallWords)

\* the sequence score is exactly 0.8 and the all-words value 0.7 is returned
C15_Witness ==
    /\ IsCascadeCall
    /\ CallSequenceScore = Rat(8, 10)
    /\ ret.value = <<7, 10>>

(***************************************************************************)
(* C16.  Every score the fallback branch (Methods 5-7) produces is         *)
(* strictly lower than every score a structural branch produces: 1.0 for   *)
(* the exact substring, a sequence-order score above 0.8, 0.7 for all      *)
(* words present, 0.5 + (m / word_count) * 0.2 for most words present and  *)
(* 0.6 for the single word.                                                *)
(***************************************************************************)
\* no structural branch fires for the call's query and text
FallbackFired ==
    /\ IsSimilarityCall
    /\ ~Contains(call.query, call.text)
    /\ Len(CallWords) >= 2 =>
           /\ RLeq(CallSequenceScore, <<8, 10>>)
           /\ 10 * CallWordMatches <= 7 * Len(CallWords)
    /\ Len(CallWords) = 1 => ~Contains(CallWords[1], call.text)

\* the scores the structural branches can produce for queries of up to
\* LongQueryWords words
StructuralScores ==
    {One, <<7, 10>>, Rat(6, 10)}
    \cup {SequenceScore(g) : g \in {h \in 0..3 :
                                      RLess(<<8, 10>>, SequenceScore(h))}}
    \cup {RAdd(<<1, 2>>, Rat(2 * mn[1], 10 * mn[2])) :
              mn \in {p \in (1..LongQueryWords) \X (2..LongQueryWords) :
                          p[1] < p[2] /\ 10 * p[1] > 7 * p[2]}}

\* C16: every score of the fallback branch is strictly below every score a
\* structural branch can produce
C16_FallbackBelowStructural ==
    FallbackFired => \A s \in StructuralScores : RLess(ret.value, s)

(***************************************************************************)
(* C17.  When no earlier branch fires, _calculate_similarity returns       *)
(* edit_ratio * 0.15 + word_jaccard * 0.25 + partial_substring * 0.25,     *)
(* with word_jaccard = |Q \cap T| / |Q \cup T| over the word sets (0 for   *)
(* an empty union) and partial_substring 0.3 when some query word is       *)
(* inside some text word or the other way round, 0.0 otherwise; the value  *)
(* does not exceed 0.65.                                                   *)
(***************************************************************************)
WordJaccard(q, t) ==
    IF q \cup t = {} THEN Zero
    ELSE Rat(Cardinality(q \cap t), Cardinality(q \cup t))

PartialSubstring(q, t) ==
    IF \E qw \in q, tw \in t : Contains(qw, tw) \/ Contains(tw, qw)
    THEN <<3, 10>>
    ELSE Zero

Composite(query, text) ==
    LET q == Range(Split(query))
        t == Range(Split(text))
    IN  RAdd(RAdd(RMul(SequenceMatcherRatio(query, text), <<15, 100>>),
                  RMul(WordJaccard(q, t), <<25, 100>>)),
             RMul(PartialSubstring(q, t), <<25, 100>>))

\* C17: when no earlier branch fires the result is edit_ratio * 0.15 +
\* word_jaccard * 0.25 + partial_substring * 0.25, and at most 0.65
C17_FallbackComposite ==
    FallbackFired =>
        /\ ret.value = Composite(call.query, call.text)
        /\ RLeq(ret.value, <<65, 100>>)

(***************************************************************************)
(* C18.  Every result of search_by_keywords, for a non-empty keyword list, *)
(* has similarity_score exactly 1.0; so a threshold of at most 1.0 drops   *)
(* no qualifying rule and the results are the qualifying rules in corpus   *)
(* order.                                                                  *)
(***************************************************************************)
\* the rules of the corpus that hold every keyword, in corpus order
QualifyingRules ==
    LET Holds(rule) == Qualifies(rule, call.keywords)
    IN  SelectSeq(rules, Holds)

\* C18: every result of search_by_keywords has similarity_score 1.0, so the
\* results are the qualifying rules in corpus order whenever the threshold
\* is at most 1.0
C18_KeywordScoreOne ==
    (IsKeywords /\ call.keywords # <<>>) =>
        /\ \A p \in 1..Len(ret.value) : ret.value[p].similarity_score = One
        /\ RLeq(call.threshold, One) =>
               /\ Len(ret.value) = Len(QualifyingRules)
               /\ \A p \in 1..Len(ret.value) :
                      SameRule(ret.value[p], QualifyingRules[p])

\* two different rules returned for two different non-empty keywords under
\* the threshold 0.6
C18_Witness ==
    /\ IsKeywords
    /\ Len(call.keywords) = 2
    /\ call.keywords[1] # <<>>
    /\ call.keywords[2] # <<>>
    /\ call.keywords[1] # call.keywords[2]
    /\ call.threshold = <<3, 5>>
    /\ Len(ret.value) = 2
    /\ ~SameRule(ret.value[1], rules[2])
    /\ ret.value[2].similarity_score = One

(***************************************************************************)
(* C19.  For a single-word, non-numeric query given to fuzzy_search, each  *)
(* per-language score is 1.0 when the word is a substring of the text and  *)
(* a fallback composite value otherwise; the single-word value 0.6 is      *)
(* never produced, because the trimmed query is its only word.             *)
(***************************************************************************)
\* a fuzzy_search call that scores a query of one word
IsOneWordSearch ==
    IsScoring /\ Len(Split(QueryLower(call.query))) = 1

\* the per-language score the claim names
OneWordScore(query_lower, text) ==
    IF Contains(Split(query_lower)[1], text) THEN One
    ELSE Composite(query_lower, text)

\* C19: for a single-word non-numeric query of fuzzy_search each
\* per-language score is 1.0 or the fallback composite, never the
\* value 0.6 of the single-word branch
C19_NoSingleWordValue ==
    IsOneWordSearch =>
        \A p \in 1..Len(ret.value) :
            LET r == ret.value[p]
                q == QueryLower(call.query)
            IN  /\ r.similarity_score
                       = RMax(OneWordScore(q, Lower(r.text_eng)),
                              OneWordScore(q, Lower(r.text_rus)))
                /\ r.similarity_score # Rat(6, 10)

\* a one-word query given with a blank beside the word, and a rule returned
\* for it with a fallback score
C19_Witness ==
    /\ IsOneWordSearch
    /\ call.query # Strip(call.query)
    /\ \E p \in 1..Len(ret.value) :
           /\ RLess(Zero, ret.value[p].similarity_score)
           /\ RLess(ret.value[p].similarity_score, One)

(***************************************************************************)
(* C20.  For a group created by add_group, after any sequence of           *)
(* get_daily_rule calls the used and unused lists are duplicate-free,      *)
(* disjoint and together hold exactly the numbers 1..LastDailyRule; each   *)
(* call moves exactly one number from unused (refilled from used first     *)
(* when empty) to the end of used, so no number is picked twice before     *)
(* all have been picked since the last refill.                             *)
(***************************************************************************)
NoDuplicates(list) ==
    \A i, j \in 1..Len(list) : list[i] = list[j] => i = j

Rotation(group) ==
    /\ NoDuplicates(group.used)
    /\ NoDuplicates(group.unused)
    /\ Range(group.used) \cap Range(group.unused) = {}
    /\ Range(group.used) \cup Range(group.unused) = 1..LastDailyRule

EveryGroupInRotation ==
    \A g \in DOMAIN daily.groups : Rotation(daily.groups[g])

\* a get_daily_rule step on a registered group takes one number out of
\* unused (out of used, when unused was empty) and puts it at the end of
\* used
OneMoved ==
    [][(call'.op = "get_daily_rule" /\ call'.group_id \in DOMAIN daily.groups)
       => LET g == call'.group_id
              before == daily.groups[g]
              after == daily'.groups[g]
              source == IF before.unused # <<>> THEN before.unused
                        ELSE before.used
              kept == IF before.unused # <<>> THEN before.used ELSE <<>>
          IN  \E n \in Range(source) :
                  /\ after.used = Append(kept, n)
                  /\ Range(after.unused) = Range(source) \ {n}
                  /\ Len(after.unused) = Len(source) - 1]_vars

\* C20: the lists stay a rotation of 1..LastDailyRule, and every call moves
\* one number
C20_Rotation == []EveryGroupInRotation /\ OneMoved

\* a group after a refill, which left unused in the order of the earlier
\* picks, and a pick since then
C20_Witness ==
    \E g \in DOMAIN daily.groups :
        /\ daily.groups[g].used # <<>>
        /\ Len(daily.groups[g].unused) >= 2
        /\ daily.groups[g].unused[1] > daily.groups[g].unused[2]

(***************************************************************************)
(* C22.  get_daily_rule returns None only if it left the group's used and  *)
(* unused lists unchanged: a call that moves a number from unused to used  *)
(* returns that rule's data.                                               *)
(***************************************************************************)
\* the call that has just returned is a get_daily_rule that reported no rule
ReportedNoRule ==
    /\ call'.op = "get_daily_rule"
    /\ ret'.raised = ""
    /\ ret'.value = <<>>

\* C22: a get_daily_rule call that returns None leaves every group's used
\* and unused lists as they were
C22_NoneConsumesNothing ==
    [][ReportedNoRule => daily'.groups = daily.groups]_vars

(***************************************************************************)
(* C23.  get_daily_rule for a group id that is not registered returns None *)
(* and changes nothing: no group entry is created, no other group's lists  *)
(* change and the groups file is not written.  add_group for a registered  *)
(* group leaves that group's used and unused lists unchanged.              *)
(***************************************************************************)
\* the step is a get_daily_rule call for a group id that was not registered
UnregisteredGet ==
    /\ call'.op = "get_daily_rule"
    /\ call'.group_id \notin DOMAIN daily.groups

\* the step is an add_group call for a group id that was registered
RegisteredAdd ==
    /\ call'.op = "add_group"
    /\ call'.group_id \in DOMAIN daily.groups

\* C23: get_daily_rule for an unregistered group returns None, leaves
\* self.groups as it was and does not write the groups file; add_group for a
\* registered group leaves the group's used and unused lists as they were
C23_UnregisteredUntouched ==
    [][/\ UnregisteredGet =>
              /\ ret' = Returned(<<>>, 0)
              /\ daily'.groups = daily.groups
              /\ daily'.synced = daily.synced
              /\ ~call'.saved
       /\ RegisteredAdd =>
              /\ daily'.groups[call'.group_id].used
                     = daily.groups[call'.group_id].used
              /\ daily'.groups[call'.group_id].unused
                     = daily.groups[call'.group_id].unused]_vars

\* get_daily_rule has returned for a group that is not registered, beside a
\* registered group in the middle of its rotation, with the file behind
C23_Witness ==
    /\ call.op = "get_daily_rule"
    /\ call.group_id \notin DOMAIN daily.groups
    /\ ret.value = <<>>
    /\ ~daily.synced
    /\ \E g \in DOMAIN daily.groups :
           daily.groups[g].used # <<>> /\ daily.groups[g].unused # <<>>

(***************************************************************************)
(* C21.  During one round a failure while getting or sending the daily     *)
(* rule for one group does not stop the round: get_daily_rule is still     *)
(* attempted for every other registered group, in the groups' iteration    *)
(* order, and the round ends normally.                                     *)
(***************************************************************************)
\* the groups get_daily_rule was called for are the first keys of the
\* dictionary, in its order
AttemptedInKeyOrder ==
    /\ Len(sched.attempted) <= Len(sched.keys)
    /\ sched.attempted = SubSeq(sched.keys, 1, Len(sched.attempted))

\* C21: whatever failed for some groups, get_daily_rule is attempted for the
\* groups in key order, and a round that has ended has attempted every
\* group and left through the end of the loop
C21_FailureDoesNotStopRound ==
    /\ AttemptedInKeyOrder
    /\ (sched.pc = "done" /\ sched.keys # <<>>) =>
           /\ sched.attempted = sched.keys
           /\ sched.ended = "sent to all"

\* a round that has ended in which send_message raised for the first group
\* and the second group got its message
C21_Witness ==
    /\ sched.pc = "done"
    /\ Len(sched.keys) >= 2
    /\ sched.keys[1] \in Range(sched.failed)
    /\ sched.keys[2] \in Range(sched.sent)

=============================================================================
